---- MODULE Spec2Model ----
(***************************************************************************)
(* The SwissTable-style HashMap of collections/maps/hashmap.go.            *)
(*                                                                         *)
(* The state is the table of one HashMap value (ctrl, entries, size,       *)
(* capacity), its lock, the hasher it was constructed with, and the byte   *)
(* order of the build (matchGroup and findEmptySlot load eight control     *)
(* bytes as one native uint64).  Every public method is one action.  A     *)
(* run-time panic (index out of range) ends the call with the writes made  *)
(* so far and releases the lock (deferred Unlock); the caller may recover  *)
(* and go on using the map.  A call that blocks on the lock it already     *)
(* holds never returns and leaves the lock held.                           *)
(***************************************************************************)
EXTENDS Integers, Sequences, FiniteSets, TLC

VARIABLES ctrl, entries, size, capacity, mu, hasher, bigEndian,
          last, abs, faulted, onlyNewPuts,
          comparator, readers, writer, pc

vars == <<ctrl, entries, size, capacity, mu, hasher, bigEndian,
          last, abs, faulted, onlyNewPuts,
          comparator, readers, writer, pc>>

\* what the calls of one goroutine at a time leave alone: the comparator,
\* and the lock and the goroutines between calls
oneCaller == <<comparator, readers, writer, pc>>

(***************************************************************************)
(* Program constants.                                                      *)
(***************************************************************************)
minCapacity == 8
groupSize == 16
maxProbeDistance == 128
emptyByte == 255
\* defaultLoadFactor = 0.875 = loadFactorNum / loadFactorDen
loadFactorNum == 7
loadFactorDen == 8
\* the zero values of the key and value types (*new(K), var zero V)
zeroKey == 0
zeroValue == 0

(***************************************************************************)
(* Bounds of the model.                                                    *)
(***************************************************************************)
MaxKey == 1
MaxVal == 1
MaxTopOffset == 2
MaxDeficit == 2
MaxFillKey == 7
MaxThread == 2
MaxDoublings == 3
MaxCalls == 1
MaxAddr == 1
MaxBoxedTopOffset == 1

KeySet == 0..MaxKey
ValueSet == 0..MaxVal
\* the top 7 bits of a 64-bit hash: 127 (all ones), 126, 125, ...
HashTops == {127 - j : j \in 0..MaxTopOffset}

(***************************************************************************)
(* Bytes and 64-bit words.  A uint64 loaded from eight control bytes is    *)
(* kept as its eight bytes, least significant first.                       *)
(***************************************************************************)
Min(S) == CHOOSE x \in S : \A y \in S : x <= y

\* a ^ b on two bytes, bit by bit from the least significant
RECURSIVE XorBits(_, _)
XorBits(a, b) ==
  IF a = 0 /\ b = 0 THEN 0
  ELSE ((a + b) % 2) + 2 * XorBits(a \div 2, b \div 2)

XorTable == [a \in 0..255 |-> [b \in 0..255 |-> XorBits(a, b)]]

Xor8(a, b) == XorTable[a][b]

HighBit(b) == (b \div 128) % 2 = 1

\* *(*uint64)(unsafe.Pointer(&vec[i])): byte k of the word (k = 0 least
\* significant) is ctrl[group+i+k] on a little-endian build and
\* ctrl[group+i+7-k] on a big-endian build.
LoadChunk(c, group, i, be) ==
  [k \in 0..7 |-> IF be THEN c[group + i + 7 - k] ELSE c[group + i + k]]

\* ((eq - 0x0101010101010101) & ^eq & 0x8080808080808080) >> 7 for
\* eq = chunk ^ (b * 0x0101010101010101), as the set of the bit positions
\* that are set in the result (a subset of {0, 8, ..., 56}).
RECURSIVE ZeroByteBits(_, _, _, _)
ZeroByteBits(chunk, b, k, borrow) ==
  IF k > 7 THEN {}
  ELSE LET eq == Xor8(chunk[k], b)
           raw == eq - 1 - borrow
           d == IF raw < 0 THEN raw + 256 ELSE raw
           nb == IF raw < 0 THEN 1 ELSE 0
           hit == HighBit(d) /\ ~HighBit(eq)
       IN  (IF hit THEN {8 * k} ELSE {}) \cup ZeroByteBits(chunk, b, k + 1, nb)

\* uint16(bitmask) << i, in uint16
Shl16(bits, i) == {p + i : p \in {q \in bits : q < 16}} \cap (0..15)

matchGroup(c, group, hashByte, be) ==
  Shl16(ZeroByteBits(LoadChunk(c, group, 0, be), hashByte, 0, 0), 0)
  \cup Shl16(ZeroByteBits(LoadChunk(c, group, 8, be), hashByte, 0, 0), 8)

\* return i + bits.TrailingZeros64(bitmask) for the first of the two chunks
\* (i = 0, 8) whose bitmask is not zero; b0 and b8 are the two bitmasks
firstEmptyBit(b0, b8) ==
  IF b0 # {} THEN 0 + Min(b0)
  ELSE IF b8 # {} THEN 8 + Min(b8)
  ELSE -1

findEmptySlot(c, group, be) ==
  firstEmptyBit(ZeroByteBits(LoadChunk(c, group, 0, be), emptyByte, 0, 0),
                ZeroByteBits(LoadChunk(c, group, 8, be), emptyByte, 0, 0))

(***************************************************************************)
(* The hasher.  A 64-bit hash is kept as its top 7 bits (hash >> 57) and   *)
(* its low 57 bits; the SipHash keys drawn at construction make the hash   *)
(* of each key an arbitrary value, fixed for the life of the map.          *)
(***************************************************************************)
Hashers ==
  {[k \in KeySet |-> [top7 |-> f[k], low |-> k]] : f \in [KeySet -> HashTops]}

\* hash.NewSipHasher returns &SipHasher{k0: k0, k1: k1}: the hash.Hash
\* embedded in its BaseHasher is nil, and Reset, Write and Sum of SipHasher
\* call it, so h.hasher.Reset() in hashKey is a nil dereference (a run-time
\* panic) for every key.
SipHasher == [k \in KeySet |-> [nilHash |-> TRUE]]

hashKeyPanics(key) == "nilHash" \in DOMAIN hasher[key]

hashKey(key) == hasher[key]

\* byte((hash >> 57) | 0x80)
hashToByte(hash) ==
  IF HighBit(hash.top7) THEN hash.top7 ELSE hash.top7 + 128

\* The comparators given to the map: comp.GenericComparator and
\* comp.ReverseComparator of it; c(a, b) is negative, zero or positive.
Comparators == {"GenericComparator", "ReverseComparator"}

GenericComparator(a, b) == IF a < b THEN -1 ELSE IF a > b THEN 1 ELSE 0

Compare(c, a, b) ==
  IF c = "GenericComparator" THEN GenericComparator(a, b)
  ELSE -GenericComparator(a, b)

\* h.comparator(a, b) == 0
compareKeys(a, b) == Compare(comparator, a, b) = 0

(***************************************************************************)
(* The table, as a record t = [ctrl, entries, size, capacity] so that the  *)
(* helpers can be applied to the intermediate tables of one call.  ctrl    *)
(* and entries are indexed from 0 as the slices are.                       *)
(***************************************************************************)
Table == [ctrl |-> ctrl, entries |-> entries, size |-> size,
          capacity |-> capacity]

zeroEntry == [key |-> zeroKey, value |-> zeroValue]

RetOk(v, b) == [kind |-> "ok", value |-> v, ok |-> b]
RetPanic == [kind |-> "panic"]
RetBlocked == [kind |-> "blocked"]

\* initializeCtrl with "make([]byte, h.capacity)": no padding
initializeCtrlNoPadding(t) ==
  [t EXCEPT !.ctrl = [i \in 0..(t.capacity - 1) |-> emptyByte],
            !.entries = [i \in 0..(t.capacity - 1) |-> zeroEntry]]

initializeCtrl(t) ==
  [t EXCEPT !.ctrl = [i \in 0..(t.capacity + groupSize - 1) |-> emptyByte],
            !.entries = [i \in 0..(t.capacity - 1) |-> zeroEntry]]

\* h.size >= int(float64(h.capacity) * h.loadFactor)
shouldResize(t) ==
  t.size >= (t.capacity * loadFactorNum) \div loadFactorDen

\* (index + i*i + i) & uint64(h.capacity-1)
nextProbe(t, index, i) == (index + i * i + i) % t.capacity

\* index & ^uint64(groupSize-1)
GroupOf(index) == index - (index % groupSize)

\* the loop "for match != 0" of Get, Remove and findOrInsert: the lowest set
\* bit first; reading entries[matchIndex] beyond the slice panics
RECURSIVE scanMatches(_, _, _, _)
scanMatches(t, group, match, key) ==
  IF match = {} THEN [kind |-> "miss"]
  ELSE LET matchIndex == group + Min(match)
       IN  IF matchIndex \notin DOMAIN t.entries THEN [kind |-> "panic"]
           ELSE IF compareKeys(t.entries[matchIndex].key, key)
                THEN [kind |-> "hit", index |-> matchIndex]
           ELSE scanMatches(t, group, match \ {Min(match)}, key)

\* The groups of the table: the values index & ^uint64(groupSize-1) can take
GroupStarts(t) == {g \in 0..(t.capacity - 1) : g % groupSize = 0}

\* What one iteration of the probe loop of Get and Remove (duplicated code)
\* does at a group: a hit or a panic in the match loop, a miss when the
\* first control byte of the group is empty, otherwise on to the next probe.
afterMatches(s, rest) == IF s.kind # "miss" THEN s ELSE rest

lookupGroup(t, hashByte, key, group) ==
  afterMatches(
    scanMatches(t, group, matchGroup(t.ctrl, group, hashByte, bigEndian),
                key),
    IF t.ctrl[group] = emptyByte THEN [kind |-> "miss"]
    ELSE [kind |-> "next"])

\* The table is not written during a probe loop, so an iteration does the
\* same at a group each time the probe comes back to it: at is the set of
\* pairs <<group, what the iteration does there>>, evaluated once per group.
AtGroup(at, group) == (CHOOSE p \in at : p[1] = group)[2]

\* iteration number i of the probe loop, at index
probeStep(at, t, index, i) ==
  IF AtGroup(at, GroupOf(index)).kind = "next"
    THEN [kind |-> "next", index |-> nextProbe(t, index, i)]
  ELSE AtGroup(at, GroupOf(index))

\* iterations i, i+1, ..., i+n-1 of the probe loop in order, starting at
\* index (the run is split in halves to keep the evaluation stack shallow)
RECURSIVE probeRun(_, _, _, _, _)
probeRun(at, t, index, i, n) ==
  IF n = 1 THEN probeStep(at, t, index, i)
  ELSE LET h == n \div 2
           a == probeRun(at, t, index, i, h)
       IN  IF a.kind # "next" THEN a
           ELSE probeRun(at, t, a.index, i + h, n - h)

\* for i := uint64(0); i < maxProbeDistance; i++ { ... }: the result is
\* "next" when all maxProbeDistance iterations went on to the next probe,
\* which is what happens when no group of the table ends the loop
probeLoop(at, t, index) ==
  IF \A p \in at : p[2].kind = "next" THEN [kind |-> "next"]
  ELSE probeRun(at, t, index, 0, maxProbeDistance)

\* not found after the loop
notFound(r) == IF r.kind = "next" THEN [kind |-> "miss"] ELSE r

lookup(t, hashByte, key, index) ==
  notFound(probeLoop({<<g, lookupGroup(t, hashByte, key, g)>> :
                        g \in GroupStarts(t)}, t, index))

\* the returns of Get, r being the outcome of its probe loop
GetReturn(t, r) ==
  IF r.kind = "hit" THEN RetOk(t.entries[r.index].value, TRUE)
  ELSE IF r.kind = "panic" THEN RetPanic
  ELSE RetOk(zeroValue, FALSE)

Get(t, key) ==
  IF hashKeyPanics(key) THEN RetPanic
  ELSE GetReturn(t, lookup(t, hashToByte(hashKey(key)), key,
                           hashKey(key).low % t.capacity))

removeEntry(t, index) ==
  [t |-> [t EXCEPT !.ctrl[index] = emptyByte,
                   !.entries[index] = zeroEntry,
                   !.size = @ - 1],
   ret |-> RetOk(t.entries[index].value, TRUE)]

\* the returns of Remove, r being the outcome of its probe loop
RemoveReturn(t, r) ==
  IF r.kind = "hit" THEN removeEntry(t, r.index)
  ELSE IF r.kind = "panic" THEN [t |-> t, ret |-> RetPanic]
  ELSE [t |-> t, ret |-> RetOk(zeroValue, FALSE)]

Remove(t, key) ==
  IF hashKeyPanics(key) THEN [t |-> t, ret |-> RetPanic]
  ELSE RemoveReturn(t, lookup(t, hashToByte(hashKey(key)), key,
                              hashKey(key).low % t.capacity))

\* resize with "h.capacity += newCapacity" for "h.capacity = newCapacity"
resizeAdding(t, newCapacity) ==
  [t |-> [initializeCtrl([t EXCEPT !.capacity = t.capacity + newCapacity])
            EXCEPT !.size = 0],
   blocked |-> \E i \in DOMAIN t.entries : HighBit(t.ctrl[i])]

\* resize replays h.Put for every old slot with oldCtrl[i]&0x80 != 0.  Put
\* starts with h.mu.Lock(), and resize runs only inside a Put that holds
\* h.mu; sync.RWMutex is not reentrant, so the first replayed Put blocks
\* for ever, after capacity, ctrl, entries and size have been reset.
resize(t, newCapacity) ==
  LET oldCtrl == t.ctrl
      oldEntries == t.entries
      fresh == [initializeCtrl([t EXCEPT !.capacity = newCapacity])
                  EXCEPT !.size = 0]
  IN  [t |-> fresh,
       blocked |-> \E i \in DOMAIN oldEntries : HighBit(oldCtrl[i])]

\* what one iteration of the probe loop of findOrInsert does at a group
\* emptySlot := h.findEmptySlot(group); if emptySlot != -1 { ... }
insertAt(t, hashByte, group, emptySlot) ==
  IF emptySlot = -1 THEN [kind |-> "next"]
  ELSE IF group + emptySlot \notin DOMAIN t.ctrl
    THEN [kind |-> "panic", t |-> t]
  ELSE [kind |-> "slot",
        t |-> [t EXCEPT !.ctrl[group + emptySlot] = hashByte],
        index |-> group + emptySlot, existed |-> FALSE]

\* the match loop first (s is its outcome), then the empty slot (ins)
matchOrInsert(t, s, ins) ==
  IF s.kind = "hit"
    THEN [kind |-> "slot", t |-> t, index |-> s.index, existed |-> TRUE]
  ELSE IF s.kind = "panic" THEN [kind |-> "panic", t |-> t]
  ELSE ins

findOrInsertGroup(t, hashByte, key, group) ==
  matchOrInsert(
    t,
    scanMatches(t, group, matchGroup(t.ctrl, group, hashByte, bigEndian),
                key),
    insertAt(t, hashByte, group, findEmptySlot(t.ctrl, group, bigEndian)))

\* r is the outcome of the probe loop, resized what follows the loop
afterProbe(r, resized) == IF r.kind # "next" THEN r ELSE resized

RECURSIVE findOrInsert(_, _, _)
findOrInsert(t, hash, key) ==
  afterProbe(
    probeLoop({<<g, findOrInsertGroup(t, hashToByte(hash), key, g)>> :
                 g \in GroupStarts(t)}, t, hash.low % t.capacity),
    LET z == resize(t, t.capacity * 2)
    IN  IF z.blocked THEN [kind |-> "blocked", t |-> z.t]
        ELSE findOrInsert(z.t, hash, key))

\* h.entries[index] = entry{key, value}; size++ unless existed; r is what
\* findOrInsert returned
PutStore(r, key, value) ==
  IF r.kind = "blocked" THEN [t |-> r.t, ret |-> RetBlocked]
  ELSE IF r.kind = "panic" THEN [t |-> r.t, ret |-> RetPanic]
  ELSE IF r.index \notin DOMAIN r.t.entries
    THEN [t |-> r.t, ret |-> RetPanic]
  ELSE [t |-> [r.t EXCEPT !.entries[r.index] =
                             [key |-> key, value |-> value],
                          !.size = IF r.existed THEN @ ELSE @ + 1],
        ret |-> RetOk(r.t.entries[r.index].value, r.existed)]

\* z is the table after "if h.shouldResize() { h.resize(h.capacity * 2) }"
PutResized(z, key, value) ==
  IF z.blocked THEN [t |-> z.t, ret |-> RetBlocked]
  ELSE IF hashKeyPanics(key) THEN [t |-> z.t, ret |-> RetPanic]
  ELSE PutStore(findOrInsert(z.t, hashKey(key), key), key, value)

\* if h.shouldResize() { h.resize(h.capacity * 2) }: the table in which
\* the insertion probe of Put starts
PutResizeStep(t) ==
  IF shouldResize(t) THEN resize(t, t.capacity * 2)
  ELSE [t |-> t, blocked |-> FALSE]

Put(t, key, value) == PutResized(PutResizeStep(t), key, value)

Clear(t) ==
  initializeCtrl([t EXCEPT !.size = 0, !.capacity = minCapacity])

Size(t) == t.size

IsEmpty(t) == t.size = 0

\* _, found := h.Get(key); return found (a panic of Get unwinds ContainsKey)
ContainsKeyReturn(r) ==
  IF r.kind = "ok" THEN [kind |-> "ok", ok |-> r.ok] ELSE r

ContainsKey(t, key) == ContainsKeyReturn(Get(t, key))

\* "for i, ctrl := range h.ctrl": every index of ctrl, padding included;
\* Keys appends entries[i].key, Values entries[i].value, ForEach calls
\* f(key, value); sel picks what is collected
RECURSIVE rangeCtrl(_, _, _, _)
rangeCtrl(t, i, acc, sel) ==
  IF i \notin DOMAIN t.ctrl THEN [kind |-> "ok", list |-> acc]
  ELSE IF HighBit(t.ctrl[i])
    THEN IF i \notin DOMAIN t.entries THEN [kind |-> "panic", list |-> acc]
         ELSE rangeCtrl(t, i + 1,
                        Append(acc, IF sel = "key" THEN t.entries[i].key
                                    ELSE IF sel = "value"
                                      THEN t.entries[i].value
                                    ELSE t.entries[i]), sel)
  ELSE rangeCtrl(t, i + 1, acc, sel)

\* a panic unwinds Keys and Values before they return their slice
Keys(t) ==
  LET r == rangeCtrl(t, 0, <<>>, "key")
  IN  IF r.kind = "panic" THEN RetPanic ELSE r

Values(t) ==
  LET r == rangeCtrl(t, 0, <<>>, "value")
  IN  IF r.kind = "panic" THEN RetPanic ELSE r

\* the calls of f made by ForEach are observed by the caller also when
\* ForEach panics afterwards
ForEach(t) == rangeCtrl(t, 0, <<>>, "entry")

(***************************************************************************)
(* The state machine.  last is the most recent call with its result; abs   *)
(* is the map the calls made so far describe (key -> value most recently   *)
(* Put and not Removed or Cleared since); faulted records that some call    *)
(* so far panicked or blocked; onlyNewPuts that the mutating calls so far  *)
(* were Puts of pairwise distinct keys.                                    *)
(***************************************************************************)
NoKeys == [k \in {} |-> zeroValue]

\* The goroutines that call the map.  pc[th] is the call goroutine th is
\* in and where in it: at is "idle" between calls.  writer is the goroutine
\* that called h.mu.Lock() and has not unlocked (noThread when there is
\* none): it holds the lock when mu = "locked" and waits for the readers to
\* leave before.  readers counts the read locks held.
Threads == 1..MaxThread

noThread == 0

\* n counts the calls the goroutine has started.
Idle == [at |-> "idle", op |-> "none", key |-> zeroKey, value |-> zeroValue,
         comp |-> "GenericComparator", n |-> 0]

\* between calls, after the call c
Returned(c) == [Idle EXCEPT !.n = c.n]

Call(op, key, value, ret) ==
  [op |-> op, key |-> key, value |-> value, ret |-> ret]

Faulty(ret) == ret.kind # "ok"

\* the mutex after a call: a blocked call holds it for ever
MuAfter(ret) == IF ret.kind = "blocked" THEN "locked" ELSE "unlocked"

\* NewHashMapWithHasher: capacity 8, size 0, every control byte empty; the
\* hasher is one of hashers
NewHashMapWithHasher(hashers) ==
  /\ capacity = minCapacity
  /\ size = 0
  /\ ctrl = [i \in 0..(minCapacity + groupSize - 1) |-> emptyByte]
  /\ entries = [i \in 0..(minCapacity - 1) |-> zeroEntry]
  /\ mu = "unlocked"
  /\ hasher \in hashers
  /\ bigEndian \in BOOLEAN
  /\ last = Call("New", zeroKey, zeroValue, [kind |-> "ok"])
  /\ abs = NoKeys
  /\ faulted = FALSE
  /\ onlyNewPuts = TRUE
  /\ comparator = "GenericComparator"
  /\ readers = 0
  /\ writer = noThread
  /\ pc = [th \in Threads |-> Idle]

\* a map of NewHashMap has the SipHasher, a map of NewHashMapWithHasher a
\* hasher of the caller
Init == NewHashMapWithHasher(Hashers \cup {SipHasher})

SetTable(t) ==
  /\ ctrl' = t.ctrl
  /\ entries' = t.entries
  /\ size' = t.size
  /\ capacity' = t.capacity

\* a call of op that leaves the table r.t and ends with r.ret
Returns(op, key, value, r) ==
  /\ SetTable(r.t)
  /\ mu' = MuAfter(r.ret)
  /\ last' = Call(op, key, value, r.ret)
  /\ faulted' = (faulted \/ Faulty(r.ret))

PutCall(key, value) ==
  /\ mu = "unlocked"
  /\ Returns("Put", key, value, Put(Table, key, value))
  /\ UNCHANGED oneCaller
  /\ abs' = [k \in DOMAIN abs \cup {key} |-> IF k = key THEN value ELSE abs[k]]
  /\ onlyNewPuts' = (onlyNewPuts /\ key \notin DOMAIN abs)
  /\ UNCHANGED <<hasher, bigEndian>>

GetCall(key) ==
  /\ mu = "unlocked"
  /\ Returns("Get", key, zeroValue, [t |-> Table, ret |-> Get(Table, key)])
  /\ UNCHANGED <<hasher, bigEndian, abs, onlyNewPuts>>
  /\ UNCHANGED oneCaller

RemoveCall(key) ==
  /\ mu = "unlocked"
  /\ size > -MaxDeficit
  /\ Returns("Remove", key, zeroValue, Remove(Table, key))
  /\ abs' = [k \in DOMAIN abs \ {key} |-> abs[k]]
  /\ onlyNewPuts' = FALSE
  /\ UNCHANGED <<hasher, bigEndian>>
  /\ UNCHANGED oneCaller

ClearCall ==
  /\ mu = "unlocked"
  /\ SetTable(Clear(Table))
  /\ last' = Call("Clear", zeroKey, zeroValue, [kind |-> "ok"])
  /\ abs' = NoKeys
  /\ onlyNewPuts' = FALSE
  /\ UNCHANGED <<mu, hasher, bigEndian, faulted>>
  /\ UNCHANGED oneCaller

KeysCall ==
  /\ mu = "unlocked"
  /\ LET ret == Keys(Table)
     IN  /\ last' = Call("Keys", zeroKey, zeroValue, ret)
         /\ faulted' = (faulted \/ Faulty(ret))
  /\ UNCHANGED <<ctrl, entries, size, capacity, mu, hasher, bigEndian, abs,
               onlyNewPuts>>
  /\ UNCHANGED oneCaller

ValuesCall ==
  /\ mu = "unlocked"
  /\ LET ret == Values(Table)
     IN  /\ last' = Call("Values", zeroKey, zeroValue, ret)
         /\ faulted' = (faulted \/ Faulty(ret))
  /\ UNCHANGED <<ctrl, entries, size, capacity, mu, hasher, bigEndian, abs,
               onlyNewPuts>>
  /\ UNCHANGED oneCaller

ForEachCall ==
  /\ mu = "unlocked"
  /\ LET ret == ForEach(Table)
     IN  /\ last' = Call("ForEach", zeroKey, zeroValue, ret)
         /\ faulted' = (faulted \/ Faulty(ret))
  /\ UNCHANGED <<ctrl, entries, size, capacity, mu, hasher, bigEndian, abs,
               onlyNewPuts>>
  /\ UNCHANGED oneCaller

\* the read-only calls: Returns leaves the table as it is
ContainsKeyCall(key) ==
  /\ mu = "unlocked"
  /\ Returns("ContainsKey", key, zeroValue,
             [t |-> Table, ret |-> ContainsKey(Table, key)])
  /\ UNCHANGED <<hasher, bigEndian, abs, onlyNewPuts>>
  /\ UNCHANGED oneCaller

SizeCall ==
  /\ mu = "unlocked"
  /\ Returns("Size", zeroKey, zeroValue,
             [t |-> Table, ret |-> [kind |-> "ok", value |-> Size(Table)]])
  /\ UNCHANGED <<hasher, bigEndian, abs, onlyNewPuts>>
  /\ UNCHANGED oneCaller

IsEmptyCall ==
  /\ mu = "unlocked"
  /\ Returns("IsEmpty", zeroKey, zeroValue,
             [t |-> Table, ret |-> [kind |-> "ok", ok |-> IsEmpty(Table)]])
  /\ UNCHANGED <<hasher, bigEndian, abs, onlyNewPuts>>
  /\ UNCHANGED oneCaller

Next ==
  \/ \E key \in KeySet, value \in ValueSet : PutCall(key, value)
  \/ \E key \in KeySet : GetCall(key)
  \/ \E key \in KeySet : RemoveCall(key)
  \/ \E key \in KeySet : ContainsKeyCall(key)
  \/ ClearCall
  \/ KeysCall
  \/ ValuesCall
  \/ ForEachCall
  \/ SizeCall
  \/ IsEmptyCall

Spec == Init /\ [][Next]_vars

TypeOK ==
  /\ capacity \in Nat
  /\ size \in Int
  /\ mu \in {"unlocked", "locked"}
  /\ faulted \in BOOLEAN
  /\ onlyNewPuts \in BOOLEAN

(***************************************************************************)
(* A fresh map that only receives Puts of keys it has not been given       *)
(* before (keys 0..MaxFillKey; the zero key hashes to one value, the       *)
(* other keys to another).                                                 *)
(***************************************************************************)
FillKeys == 0..MaxFillKey

FillHashers ==
  {[k \in FillKeys |-> [top7 |-> IF k = zeroKey THEN a ELSE b, low |-> k]] :
     a \in HashTops, b \in HashTops}

InitFill == NewHashMapWithHasher(FillHashers)

PutNewCall ==
  \E key \in FillKeys \ DOMAIN abs, value \in ValueSet \ {zeroValue} :
    PutCall(key, value)

NextFill == PutNewCall

SpecFill == InitFill /\ [][NextFill]_vars

(***************************************************************************)
(* Construction.  Before NewHashMap or NewHashMapWithHasher is called      *)
(* there is no map.  NewHashMap asks hash.NewSipHasher for a hasher, which *)
(* reads 16 bytes from crypto/rand (GenerateRandomKeys): rand is whether   *)
(* that read succeeds.  The result of the constructor keeps rand.          *)
(***************************************************************************)
RandOutcomes == {"ok", "fails"}

NoHasher == <<>>

InitNew ==
  /\ capacity = 0
  /\ size = 0
  /\ ctrl = <<>>
  /\ entries = <<>>
  /\ mu = "unlocked"
  /\ hasher = NoHasher
  /\ bigEndian \in BOOLEAN
  /\ last = Call("none", zeroKey, zeroValue, [kind |-> "ok"])
  /\ abs = NoKeys
  /\ faulted = FALSE
  /\ onlyNewPuts = TRUE
  /\ comparator = "GenericComparator"
  /\ readers = 0
  /\ writer = noThread
  /\ pc = [th \in Threads |-> Idle]

\* h := &HashMap{capacity: minCapacity, ...}; h.initializeCtrl();
\* return res.Ok(h)
MapBuilt(op, rand, cmp, h) ==
  /\ SetTable(initializeCtrl([ctrl |-> <<>>, entries |-> <<>>, size |-> 0,
                              capacity |-> minCapacity]))
  /\ hasher' = h
  /\ comparator' = cmp
  /\ last' = Call(op, zeroKey, zeroValue, [kind |-> "ok", rand |-> rand])
  /\ UNCHANGED <<mu, bigEndian, abs, faulted, onlyNewPuts, readers, writer,
                 pc>>

NewHashMapWithHasherCall(cmp, h) ==
  /\ last.op = "none"
  /\ MapBuilt("NewHashMapWithHasher", "ok", cmp, h)

\* hasher, err := hash.NewSipHasher(); if err != nil { return res.Err(err) }
NewHashMapCall(cmp, rand) ==
  /\ last.op = "none"
  /\ IF rand = "fails"
       THEN /\ last' = Call("NewHashMap", zeroKey, zeroValue,
                            [kind |-> "err", rand |-> rand])
            /\ UNCHANGED <<ctrl, entries, size, capacity, mu, hasher,
                           bigEndian, abs, faulted, onlyNewPuts, comparator,
                           readers, writer, pc>>
     ELSE MapBuilt("NewHashMap", rand, cmp, SipHasher)

\* the calls on the map a constructor returned
MapCall ==
  /\ capacity # 0
  /\ Next

NextNew ==
  \/ \E cmp \in Comparators, rand \in RandOutcomes : NewHashMapCall(cmp, rand)
  \/ \E cmp \in Comparators, h \in Hashers : NewHashMapWithHasherCall(cmp, h)
  \/ MapCall

SpecNew == InitNew /\ [][NextNew]_vars

(***************************************************************************)
(* Several goroutines on one map.  A call is a sequence of steps: the      *)
(* locking the method starts with, its body (done in one step: it runs     *)
(* with the lock held), and the deferred unlocking.  sync.RWMutex: Lock    *)
(* first excludes the other writers and announces itself, which makes new  *)
(* RLock calls wait, then waits for the read locks held to be released;    *)
(* RLock waits while a writer holds the lock or has announced itself.      *)
(* Comparator() reads h.comparator without locking.  ContainsKey takes the *)
(* read lock and calls Get, which takes it again.  Each goroutine makes at *)
(* most MaxCalls calls.                                                    *)
(***************************************************************************)
ExclusiveOps == {"Put", "Remove", "Clear", "SetComparator"}

SharedOps == {"Get", "ContainsKey", "Keys", "Values", "ForEach", "Size",
              "IsEmpty"}

\* a call as it starts: where it starts, and its arguments
Enter(op, key, value, cmp) ==
  [at |-> IF op \in ExclusiveOps THEN "Lock"
          ELSE IF op \in SharedOps THEN "RLock"
          ELSE "read",
   op |-> op, key |-> key, value |-> value, comp |-> cmp, n |-> 0]

Calls ==
  {Enter("Put", k, v, "GenericComparator") : k \in KeySet, v \in ValueSet}
  \cup {Enter(op, k, zeroValue, "GenericComparator") :
          op \in {"Get", "Remove", "ContainsKey"}, k \in KeySet}
  \cup {Enter(op, zeroKey, zeroValue, "GenericComparator") :
          op \in {"Clear", "Keys", "Values", "ForEach", "Size", "IsEmpty",
                  "Comparator"}}
  \cup {Enter("SetComparator", zeroKey, zeroValue, cmp) : cmp \in Comparators}

\* the table and the result of the body of call c
Do(c) ==
  IF c.op = "Put" THEN Put(Table, c.key, c.value)
  ELSE IF c.op = "Remove" THEN Remove(Table, c.key)
  ELSE IF c.op = "Clear" THEN [t |-> Clear(Table), ret |-> [kind |-> "ok"]]
  ELSE [t |-> Table,
        ret |-> IF c.op = "Get" THEN Get(Table, c.key)
                ELSE IF c.op = "ContainsKey" THEN ContainsKey(Table, c.key)
                ELSE IF c.op = "Keys" THEN Keys(Table)
                ELSE IF c.op = "Values" THEN Values(Table)
                ELSE IF c.op = "ForEach" THEN ForEach(Table)
                ELSE IF c.op = "Size"
                  THEN [kind |-> "ok", value |-> Size(Table)]
                ELSE IF c.op = "IsEmpty"
                  THEN [kind |-> "ok", ok |-> IsEmpty(Table)]
                ELSE [kind |-> "ok"]]

\* the keys and values the calls so far describe, after the body of c
AbsAfter(c) ==
  IF c.op = "Put"
    THEN [k \in DOMAIN abs \cup {c.key} |->
            IF k = c.key THEN c.value ELSE abs[k]]
  ELSE IF c.op = "Remove" THEN [k \in DOMAIN abs \ {c.key} |-> abs[k]]
  ELSE IF c.op = "Clear" THEN NoKeys
  ELSE abs

\* where a call goes after its body: the deferred unlocks, or nowhere when
\* it blocked
AfterBody(c, ret) ==
  IF ret.kind = "blocked" THEN "stuck"
  ELSE IF c.op \in ExclusiveOps THEN "Unlock"
  ELSE IF c.op = "ContainsKey" THEN "RUnlock2"
  ELSE "RUnlock"

\* no writer holds the lock or waits for it: Lock and RLock go on
noWriter == writer = noThread

\* the read locks have been released: the announced writer goes on
noReaders == readers = 0

\* goroutine th is inside a call and its next step is possible
Runnable(th) ==
  IF pc[th].at \in {"Lock", "RLock", "RLock2"} THEN noWriter
  ELSE IF pc[th].at = "LockWait" THEN noReaders
  ELSE pc[th].at \in {"body", "Unlock", "RUnlock", "RUnlock2", "read"}

CallStart(th) ==
  /\ pc[th].at = "idle"
  /\ pc[th].n < MaxCalls
  /\ \E c \in Calls :
       /\ c.op = "Remove" => size > -MaxDeficit
       /\ pc' = [pc EXCEPT ![th] = [c EXCEPT !.n = pc[th].n + 1]]
  /\ UNCHANGED <<ctrl, entries, size, capacity, mu, hasher, bigEndian, last,
                 abs, faulted, onlyNewPuts, comparator, readers, writer>>

\* h.mu.Lock(), first half: exclude the other writers, announce
LockStep(th) ==
  /\ pc[th].at = "Lock"
  /\ noWriter
  /\ writer' = th
  /\ pc' = [pc EXCEPT ![th].at = "LockWait"]
  /\ UNCHANGED <<ctrl, entries, size, capacity, mu, hasher, bigEndian, last,
                 abs, faulted, onlyNewPuts, comparator, readers>>

\* h.mu.Lock(), second half: the read locks held have been released
LockAcquired(th) ==
  /\ pc[th].at = "LockWait"
  /\ noReaders
  /\ mu' = "locked"
  /\ pc' = [pc EXCEPT ![th].at = "body"]
  /\ UNCHANGED <<ctrl, entries, size, capacity, hasher, bigEndian, last,
                 abs, faulted, onlyNewPuts, comparator, readers, writer>>

\* h.mu.RLock(): of the method, and of the Get that ContainsKey calls
RLockStep(th) ==
  /\ pc[th].at \in {"RLock", "RLock2"}
  /\ noWriter
  /\ readers' = readers + 1
  /\ pc' = [pc EXCEPT ![th].at =
               IF pc[th].at = "RLock" /\ pc[th].op = "ContainsKey"
                 THEN "RLock2"
               ELSE "body"]
  /\ UNCHANGED <<ctrl, entries, size, capacity, mu, hasher, bigEndian, last,
                 abs, faulted, onlyNewPuts, comparator, writer>>

\* the body of call c of th, r being its table and result
BodyDone(th, c, r) ==
  /\ SetTable(r.t)
  /\ last' = Call(c.op, c.key, c.value, r.ret)
  /\ faulted' = (faulted \/ Faulty(r.ret))
  /\ abs' = AbsAfter(c)
  /\ onlyNewPuts' = (onlyNewPuts /\ c.op \notin {"Remove", "Clear"}
                       /\ (c.op = "Put" => c.key \notin DOMAIN abs))
  /\ comparator' = IF c.op = "SetComparator" THEN c.comp ELSE comparator
  /\ pc' = [pc EXCEPT ![th].at = AfterBody(c, r.ret)]
  /\ UNCHANGED <<mu, hasher, bigEndian, readers, writer>>

Body(th) ==
  /\ pc[th].at = "body"
  /\ BodyDone(th, pc[th], Do(pc[th]))

\* defer h.mu.Unlock()
UnlockStep(th) ==
  /\ pc[th].at = "Unlock"
  /\ mu' = "unlocked"
  /\ writer' = noThread
  /\ pc' = [pc EXCEPT ![th] = Returned(pc[th])]
  /\ UNCHANGED <<ctrl, entries, size, capacity, hasher, bigEndian, last,
                 abs, faulted, onlyNewPuts, comparator, readers>>

\* defer h.mu.RUnlock(): of the Get that ContainsKey called, and of the
\* method
RUnlockStep(th) ==
  /\ pc[th].at \in {"RUnlock", "RUnlock2"}
  /\ readers' = readers - 1
  /\ pc' = [pc EXCEPT ![th] =
               IF pc[th].at = "RUnlock2" THEN [pc[th] EXCEPT !.at = "RUnlock"]
               ELSE Returned(pc[th])]
  /\ UNCHANGED <<ctrl, entries, size, capacity, mu, hasher, bigEndian, last,
                 abs, faulted, onlyNewPuts, comparator, writer>>

\* Comparator(): return h.comparator
ComparatorRead(th) ==
  /\ pc[th].at = "read"
  /\ last' = Call("Comparator", zeroKey, zeroValue,
                  [kind |-> "ok", comp |-> comparator])
  /\ pc' = [pc EXCEPT ![th] = Returned(pc[th])]
  /\ UNCHANGED <<ctrl, entries, size, capacity, mu, hasher, bigEndian, abs,
                 faulted, onlyNewPuts, comparator, readers, writer>>

\* the steps of a goroutine inside a call
Step(th) ==
  \/ LockStep(th)
  \/ LockAcquired(th)
  \/ RLockStep(th)
  \/ Body(th)
  \/ UnlockStep(th)
  \/ RUnlockStep(th)
  \/ ComparatorRead(th)

NextConc == \E th \in Threads : CallStart(th) \/ Step(th)

InitConc == NewHashMapWithHasher(Hashers)

SpecConc == InitConc /\ [][NextConc]_vars

(***************************************************************************)
(* hashKey, at the level of the bytes it hashes.  hashKey hands the key to *)
(* keyToBytes(key any): the key is converted to an interface value, whose  *)
(* two words are the type of K and a pointer to a copy of the key that the *)
(* run time has put somewhere (addr).  A string key is hashed by its       *)
(* bytes.  A key of any other type but []byte goes to hash.ToBinary(v      *)
(* interface{}), where unsafe.Sizeof(v) is the size of the interface value *)
(* itself and the bytes copied from &v are its two words: the key is not   *)
(* read.  The hasher here is a function of the bytes written to it; the    *)
(* specifications above are those of a map whose keys are hashed by value. *)
(***************************************************************************)
KeyTypes == {"string", "int"}

Addrs == 0..MaxAddr

\* the type word of the interface value of a key of type int
typeWord == 0

\* the two words of the interface value v
ToBinary(addr) == <<typeWord, addr>>

keyToBytes(typ, key, addr) ==
  IF typ = "string" THEN <<key>> ELSE ToBinary(addr)

ByteStrings ==
  {keyToBytes(typ, key, addr) : typ \in KeyTypes, key \in KeySet,
                                addr \in Addrs}

HashValues == {[top7 |-> t, low |-> l] : t \in HashTops, l \in KeySet}

ByteHashers == [ByteStrings -> HashValues]

\* h.hasher.Reset(); h.hasher.Write(keyBytes); h.hasher.Sum(nil)
hashKeyBytes(keyBytes) == hasher[keyBytes]

\* hashKey(key) on a map with keys of type typ, the copy of the key being
\* at addr
HashKeyCall(typ, key, addr) ==
  /\ last' = Call("hashKey", key, zeroValue,
                  [kind |-> "ok", type |-> typ,
                   hash |-> hashKeyBytes(keyToBytes(typ, key, addr))])
  /\ UNCHANGED <<ctrl, entries, size, capacity, mu, hasher, bigEndian, abs,
                 faulted, onlyNewPuts, comparator, readers, writer, pc>>

\* hashToByte(hash), for a hash the hasher can return
HashToByteCall(hash) ==
  /\ last' = Call("hashToByte", zeroKey, zeroValue,
                  [kind |-> "ok", hash |-> hash, byte |-> hashToByte(hash)])
  /\ UNCHANGED <<ctrl, entries, size, capacity, mu, hasher, bigEndian, abs,
                 faulted, onlyNewPuts, comparator, readers, writer, pc>>

InitHash == NewHashMapWithHasher(ByteHashers)

NextHash ==
  \/ \E typ \in KeyTypes, key \in KeySet, addr \in Addrs :
       HashKeyCall(typ, key, addr)
  \/ \E hash \in HashValues : HashToByteCall(hash)

SpecHash == InitHash /\ [][NextHash]_vars

(***************************************************************************)
(* A map with keys of type int (HashMap[int, V]) and a working hasher.     *)
(* Each call converts its key to an interface value for keyToBytes, and    *)
(* the bytes hashed are those of ToBinary: they tell where the copy of the *)
(* key is (addr), not what the key is.                                     *)
(***************************************************************************)
BoxedHashValues ==
  {[top7 |-> 126 - j, low |-> 0] : j \in 0..MaxBoxedTopOffset}

BoxedHashers == [ByteStrings -> BoxedHashValues]

\* Get after "hash := h.hashKey(key)"
GetAt(t, hash, key) ==
  GetReturn(t, lookup(t, hashToByte(hash), key, hash.low % t.capacity))

\* Put after "hash := h.hashKey(key)", z being the table after the resize
\* step Put starts with
PutAt(z, hash, key, value) ==
  IF z.blocked THEN [t |-> z.t, ret |-> RetBlocked]
  ELSE PutStore(findOrInsert(z.t, hash, key), key, value)

PutBoxedCall(key, value, addr) ==
  /\ mu = "unlocked"
  /\ Returns("Put", key, value,
             PutAt(PutResizeStep(Table),
                   hashKeyBytes(keyToBytes("int", key, addr)), key, value))
  /\ abs' = [k \in DOMAIN abs \cup {key} |-> IF k = key THEN value ELSE abs[k]]
  /\ onlyNewPuts' = (onlyNewPuts /\ key \notin DOMAIN abs)
  /\ UNCHANGED <<hasher, bigEndian>>
  /\ UNCHANGED oneCaller

GetBoxedCall(key, addr) ==
  /\ mu = "unlocked"
  /\ Returns("Get", key, zeroValue,
             [t |-> Table,
              ret |-> GetAt(Table, hashKeyBytes(keyToBytes("int", key, addr)),
                            key)])
  /\ UNCHANGED <<hasher, bigEndian, abs, onlyNewPuts>>
  /\ UNCHANGED oneCaller

InitBoxed == NewHashMapWithHasher(BoxedHashers)

NextBoxed ==
  \/ \E key \in KeySet, value \in ValueSet, addr \in Addrs :
       PutBoxedCall(key, value, addr)
  \/ \E key \in KeySet, addr \in Addrs : GetBoxedCall(key, addr)

SpecBoxed == InitBoxed /\ [][NextBoxed]_vars

(***************************************************************************)
(* Overlapping Get calls.  hashKey works on the one hasher of the map:     *)
(* h.hasher.Reset(), h.hasher.Write(keyBytes), h.hasher.Sum(nil), three    *)
(* calls on a hash.Hash that keeps the bytes written since the last Reset. *)
(* Get makes them holding the read lock only, so the calls of several      *)
(* goroutines interleave.  Here hasher is the state of that object: buf is *)
(* what has been written since the last Reset and sum gives the hash of    *)
(* every content of buf.  A Put runs alone (it holds the exclusive lock)   *)
(* and is one step.                                                        *)
(***************************************************************************)
\* what the hasher can hold: the keys written by goroutines that have not
\* Reset since, in the order written
Buffers ==
  UNION {[1..n -> KeySet] : n \in 0..MaxThread}

checksumMod == 3

RECURSIVE byteSum(_)
byteSum(buf) ==
  IF buf = <<>> THEN 0 ELSE Head(buf) + byteSum(Tail(buf))

\* the digest the hasher keeps of what was written: the hashers passed to
\* NewHashMapWithHasher here mix a checksum of the written bytes
checksum(buf) == (Len(buf) + byteSum(buf)) % checksumMod

StatefulHashers ==
  {[buf |-> <<>>, sum |-> [b \in Buffers |-> g[checksum(b)]]] :
     g \in [0..(checksumMod - 1) -> BoxedHashValues]}

\* h.hasher.Sum(nil) when exactly the bytes of key have been written
SumOf(key) == hasher.sum[<<key>>]

GetStart(th, key) ==
  /\ pc[th].at = "idle"
  /\ pc[th].n < MaxCalls
  /\ mu = "unlocked"
  /\ pc' = [pc EXCEPT ![th] = [Enter("Get", key, zeroValue,
                                      "GenericComparator")
                                EXCEPT !.n = pc[th].n + 1]]
  /\ UNCHANGED <<ctrl, entries, size, capacity, mu, hasher, bigEndian, last,
                 abs, faulted, onlyNewPuts, comparator, readers, writer>>

\* h.mu.RLock()
ReaderRLock(th) ==
  /\ pc[th].at = "RLock"
  /\ noWriter
  /\ readers' = readers + 1
  /\ pc' = [pc EXCEPT ![th].at = "Reset"]
  /\ UNCHANGED <<ctrl, entries, size, capacity, mu, hasher, bigEndian, last,
                 abs, faulted, onlyNewPuts, comparator, writer>>

\* h.hasher.Reset()
HasherReset(th) ==
  /\ pc[th].at = "Reset"
  /\ hasher' = [hasher EXCEPT !.buf = <<>>]
  /\ pc' = [pc EXCEPT ![th].at = "Write"]
  /\ UNCHANGED <<ctrl, entries, size, capacity, mu, bigEndian, last, abs,
                 faulted, onlyNewPuts, comparator, readers, writer>>

\* h.hasher.Write(keyBytes)
HasherWrite(th) ==
  /\ pc[th].at = "Write"
  /\ hasher' = [hasher EXCEPT !.buf = Append(@, pc[th].key)]
  /\ pc' = [pc EXCEPT ![th].at = "Sum"]
  /\ UNCHANGED <<ctrl, entries, size, capacity, mu, bigEndian, last, abs,
                 faulted, onlyNewPuts, comparator, readers, writer>>

\* hashBytes := h.hasher.Sum(nil): the goroutine keeps the hash in value
HasherSum(th) ==
  /\ pc[th].at = "Sum"
  /\ pc' = [pc EXCEPT ![th].at = "probe",
                       ![th].value = hasher.sum[hasher.buf]]
  /\ UNCHANGED <<ctrl, entries, size, capacity, mu, hasher, bigEndian, last,
                 abs, faulted, onlyNewPuts, comparator, readers, writer>>

\* the rest of Get: the probe with the hash of hashKey, and the return
GetProbe(th) ==
  /\ pc[th].at = "probe"
  /\ last' = Call("Get", pc[th].key, zeroValue,
                  GetAt(Table, pc[th].value, pc[th].key))
  /\ faulted' = (faulted \/ Faulty(last'.ret))
  /\ pc' = [pc EXCEPT ![th].at = "RUnlock", ![th].value = zeroValue]
  /\ UNCHANGED <<ctrl, entries, size, capacity, mu, hasher, bigEndian, abs,
                 onlyNewPuts, comparator, readers, writer>>

\* defer h.mu.RUnlock()
ReaderRUnlock(th) ==
  /\ pc[th].at = "RUnlock"
  /\ readers' = readers - 1
  /\ pc' = [pc EXCEPT ![th] = Returned(pc[th])]
  /\ UNCHANGED <<ctrl, entries, size, capacity, mu, hasher, bigEndian, last,
                 abs, faulted, onlyNewPuts, comparator, writer>>

\* a Put, from h.mu.Lock() to the deferred Unlock: no read lock is held
PutExclusive(key, value) ==
  /\ mu = "unlocked"
  /\ noReaders
  /\ Returns("Put", key, value,
             PutAt(PutResizeStep(Table), SumOf(key), key, value))
  /\ hasher' = [hasher EXCEPT !.buf = <<key>>]
  /\ abs' = [k \in DOMAIN abs \cup {key} |-> IF k = key THEN value ELSE abs[k]]
  /\ onlyNewPuts' = (onlyNewPuts /\ key \notin DOMAIN abs)
  /\ UNCHANGED bigEndian
  /\ UNCHANGED oneCaller

InitReaders == NewHashMapWithHasher(StatefulHashers)

NextReaders ==
  \/ \E key \in KeySet, value \in ValueSet : PutExclusive(key, value)
  \/ \E th \in Threads :
       \/ \E key \in KeySet : GetStart(th, key)
       \/ ReaderRLock(th)
       \/ HasherReset(th)
       \/ HasherWrite(th)
       \/ HasherSum(th)
       \/ GetProbe(th)
       \/ ReaderRUnlock(th)

SpecReaders == InitReaders /\ [][NextReaders]_vars

(***************************************************************************)
(* The group operations on the tables the map gets into.  matchGroup and   *)
(* findEmptySlot are called by Put, Get and Remove at the groups of their  *)
(* probes; here they are called on the table as the mutating calls made so *)
(* far left it, at any group and with any tag, and last keeps what they    *)
(* returned.                                                               *)
(***************************************************************************)
\* the control bytes hashToByte can return
TagBytes == {hashToByte(hash) : hash \in HashValues}

MatchGroupCall(group, hashByte) ==
  /\ last' = Call("matchGroup", zeroKey, zeroValue,
                  [kind |-> "ok", group |-> group, hashByte |-> hashByte,
                   mask |-> matchGroup(ctrl, group, hashByte, bigEndian)])
  /\ UNCHANGED <<ctrl, entries, size, capacity, mu, hasher, bigEndian, abs,
                 faulted, onlyNewPuts, comparator, readers, writer, pc>>

FindEmptySlotCall(group) ==
  /\ last' = Call("findEmptySlot", zeroKey, zeroValue,
                  [kind |-> "ok", group |-> group,
                   slot |-> findEmptySlot(ctrl, group, bigEndian)])
  /\ UNCHANGED <<ctrl, entries, size, capacity, mu, hasher, bigEndian, abs,
                 faulted, onlyNewPuts, comparator, readers, writer, pc>>

\* one iteration of the probe loop of Get(key) and Remove(key), at group:
\* step is what the iteration does ("hit", "panic", "miss" for the return
\* of not found, "next" for going on to the next probe index)
LookupGroupCall(key, group) ==
  /\ last' = Call("lookupGroup", key, zeroValue,
                  [kind |-> "ok", group |-> group,
                   step |-> lookupGroup(Table, hashToByte(hashKey(key)),
                                        key, group).kind])
  /\ UNCHANGED <<ctrl, entries, size, capacity, mu, hasher, bigEndian, abs,
                 faulted, onlyNewPuts, comparator, readers, writer, pc>>

InitGroup == NewHashMapWithHasher(Hashers)

NextGroup ==
  \/ \E key \in KeySet, value \in ValueSet : PutCall(key, value)
  \/ \E key \in KeySet : RemoveCall(key)
  \/ ClearCall
  \/ \E group \in GroupStarts(Table), hashByte \in TagBytes :
       MatchGroupCall(group, hashByte)
  \/ \E group \in GroupStarts(Table) : FindEmptySlotCall(group)
  \/ \E key \in KeySet, group \in GroupStarts(Table) :
       LookupGroupCall(key, group)

SpecGroup == InitGroup /\ [][NextGroup]_vars

(***************************************************************************)
(* The contract of the map, stated on the calls.                           *)
(***************************************************************************)
\* The counterexamples below are looked for on the little-endian build
\* (amd64, arm64), the build the package is normally run on.
LittleEndian == ~bigEndian

\* the table after the step
TableNext == [ctrl |-> ctrl', entries |-> entries', size |-> size',
              capacity |-> capacity']

\* C1: if the most recent mutating call that names key k is Put(k, v) and
\* no Clear came after it, Get(k) returns (v, true).
C1_GetReturnsLastPut ==
  (LittleEndian /\ last.op = "Get" /\ last.key \in DOMAIN abs)
    => last.ret = RetOk(abs[last.key], TRUE)

\* C2: Get(k) returns the zero value and found=false whenever k is not in
\* the map (never Put, or Removed or Cleared since its last Put), for every
\* key and hash, also on a fresh map.
C2_GetAbsentNotFound ==
  (LittleEndian /\ last.op = "Get" /\ last.key \notin DOMAIN abs)
    => last.ret = RetOk(zeroValue, FALSE)

\* C3: Put(k, v2) on a map in which k is present with value v1 returns
\* (v1, true), leaves Size() unchanged, and a following Get(k) returns
\* (v2, true).
C3_PutPresentOverwrites ==
  [][(LittleEndian /\ last'.op = "Put" /\ last'.key \in DOMAIN abs)
       => /\ last'.ret = RetOk(abs[last'.key], TRUE)
          /\ size' = size
          /\ Get(TableNext, last'.key) = RetOk(last'.value, TRUE)]_vars

\* C4: Put(k, v) on a map in which k is absent returns (zero, false) and
\* increases Size() by exactly one.
C4_PutAbsentInserts ==
  [][(LittleEndian /\ last'.op = "Put" /\ last'.key \notin DOMAIN abs)
       => /\ last'.ret = RetOk(zeroValue, FALSE)
          /\ size' = size + 1]_vars

\* C5: Remove(k) on a map in which k is present with value v returns
\* (v, true), decreases Size() by exactly one, and a Get(k) after it returns
\* (zero, false).
C5_RemovePresent ==
  [][(LittleEndian /\ last'.op = "Remove" /\ last'.key \in DOMAIN abs)
       => /\ last'.ret = RetOk(abs[last'.key], TRUE)
          /\ size' = size - 1
          /\ Get(TableNext, last'.key) = RetOk(zeroValue, FALSE)]_vars

\* C6: Remove(k) on a map in which k is absent returns (zero, false) and
\* changes nothing: size, capacity, every control byte and every entry are
\* as before the call.
C6_RemoveAbsentNoChange ==
  [][(LittleEndian /\ last'.op = "Remove" /\ last'.key \notin DOMAIN abs)
       => /\ last'.ret = RetOk(zeroValue, FALSE)
          /\ UNCHANGED <<ctrl, entries, size, capacity>>]_vars

\* C7: for any two distinct present keys A and B, Get(B) still returns
\* (valueB, true) after Remove(A).
C7_RemoveKeepsOtherKeys ==
  [][(LittleEndian /\ last'.op = "Remove" /\ last'.key \in DOMAIN abs)
       => \A b \in DOMAIN abs \ {last'.key} :
            Get(TableNext, b) = RetOk(abs[b], TRUE)]_vars

\* C8: after N Puts of N pairwise distinct keys on a fresh map (no Remove,
\* no Clear), Size() = N.
C8_SizeIsNumberOfPuts ==
  (LittleEndian /\ onlyNewPuts) => Size(Table) = Cardinality(DOMAIN abs)

\* the smallest power of two c >= 8 with n <= c * 0.875
ExpectedCapacity(n) ==
  Min({c \in {minCapacity * 2 ^ j : j \in 0..MaxFillKey} :
         n * loadFactorDen <= c * loadFactorNum})

\* C9: after N Puts of N pairwise distinct keys on a fresh map, capacity is
\* the smallest power of two c >= 8 with N <= c * 0.875.
C9_CapacityAfterPuts ==
  (LittleEndian /\ onlyNewPuts) => capacity = ExpectedCapacity(Cardinality(DOMAIN abs))

\* keys and values are the results of Keys() and Values() on one table:
\* both returned, each has Size() elements, every present key appears
\* exactly once and no other key, and the value at the position of a key is
\* the value most recently Put for it
EnumeratesLive(keys, values) ==
  /\ keys.kind = "ok"
  /\ values.kind = "ok"
  /\ Len(keys.list) = Size(Table)
  /\ Len(values.list) = Size(Table)
  /\ Len(keys.list) = Cardinality(DOMAIN abs)
  /\ {keys.list[i] : i \in 1..Len(keys.list)} = DOMAIN abs
  /\ \A i \in 1..Len(keys.list) : values.list[i] = abs[keys.list[i]]

\* C10: Keys(), Values() and ForEach each enumerate exactly the Size() live
\* entries: every present key exactly once, no absent key or empty slot, and
\* each key with the value most recently Put for it.
C10_EnumerationIsLiveEntries ==
  /\ (LittleEndian /\ last.op = "Keys")
       => EnumeratesLive(last.ret, Values(Table))
  /\ (LittleEndian /\ last.op = "Values")
       => EnumeratesLive(Keys(Table), last.ret)
  /\ (LittleEndian /\ last.op = "ForEach") =>
       /\ last.ret.kind = "ok"
       /\ Len(last.ret.list) = Size(Table)
       /\ Len(last.ret.list) = Cardinality(DOMAIN abs)
       /\ {e.key : e \in {last.ret.list[i] : i \in 1..Len(last.ret.list)}}
            = DOMAIN abs
       /\ \A i \in 1..Len(last.ret.list) :
            last.ret.list[i].value = abs[last.ret.list[i].key]

\* C11: Clear() on any reachable map sets Size() to 0 and capacity to 8 with
\* every control byte empty, and afterwards Get returns (zero, false) for
\* every key that was present before the Clear.
C11_ClearEmptiesMap ==
  [][(LittleEndian /\ ~faulted /\ last'.op = "Clear")
       => /\ size' = 0
          /\ capacity' = minCapacity
          /\ \A i \in DOMAIN ctrl' : ctrl'[i] = emptyByte
          /\ \A k \in DOMAIN abs :
               Get(TableNext, k) = RetOk(zeroValue, FALSE)]_vars

\* C12: after any number of Puts of pairwise distinct keys on a fresh map,
\* all of which returned, Get finds every one of the keys with the value it
\* was Put with.
C12_AllPutKeysFound ==
  (LittleEndian /\ onlyNewPuts /\ ~faulted)
    => \A k \in DOMAIN abs : Get(Table, k) = RetOk(abs[k], TRUE)

\* C13: when a Put starts its insertion probe, size < capacity * 0.875
\* holds in the table it probes; and on a map that was given 7 distinct
\* keys by Put alone (capacity 8), the Put of an 8th distinct key returns
\* and leaves capacity 16.
C13_ResizeBeforeProbe ==
  [][(LittleEndian /\ onlyNewPuts /\ last'.op = "Put")
       => /\ ~shouldResize(PutResizeStep(Table).t)
          /\ (Cardinality(DOMAIN abs) = minCapacity - 1
                => /\ last'.ret.kind = "ok"
                   /\ capacity' = 2 * minCapacity)]_vars

\* C14: no call of Put, Get, Remove, ContainsKey, Keys, Values, ForEach,
\* Clear, Size or IsEmpty faults (a run-time panic).
C14_NoCallPanics ==
  last.op \in {"Put", "Get", "Remove", "ContainsKey", "Keys", "Values",
               "ForEach", "Clear", "Size", "IsEmpty"}
    => last.ret.kind # "panic"

\* C15: every call made by a single goroutine returns to its caller and
\* leaves the lock released: no call blocks for ever.
C15_EveryCallReturns == last.ret.kind # "blocked" /\ mu = "unlocked"

\* C18: every Put terminates (it returns, or ends in a panic).
C18_PutTerminates ==
  [][last'.op = "Put" => last'.ret.kind \in {"ok", "panic"}]_vars

\* C20: a Put, Get, Remove or ContainsKey call never decreases capacity,
\* and the capacity it leaves is the capacity it found doubled zero or more
\* times.
C20_CapacityOnlyDoubles ==
  [][last'.op \in {"Put", "Get", "Remove", "ContainsKey"}
       => /\ capacity' >= capacity
          /\ \E j \in 0..MaxDoublings : capacity' = capacity * 2 ^ j]_vars

\* a Put has doubled the capacity of the map
C20_Doubled == last.op = "Put" /\ capacity = 2 * minCapacity

\* C19: construction is the only operation that can fail. NewHashMap
\* returns an Err result and no map exactly when the read of the secure
\* random source fails, and otherwise returns a map with capacity 8, size 0
\* and every control byte, the 16 padding bytes included, equal to the
\* empty sentinel; and no call on a constructed map fails (none panics,
\* none blocks).
C19_OnlyConstructionFails ==
  [][/\ (last.op = "none" /\ last'.op = "NewHashMap")
          => IF last'.ret.rand = "fails"
               THEN /\ last'.ret.kind = "err"
                    /\ capacity' = 0
                    /\ DOMAIN ctrl' = {}
                    /\ DOMAIN entries' = {}
             ELSE /\ last'.ret.kind = "ok"
                  /\ capacity' = minCapacity
                  /\ size' = 0
                  /\ DOMAIN ctrl' = 0..(minCapacity + groupSize - 1)
                  /\ \A i \in DOMAIN ctrl' : ctrl'[i] = emptyByte
     /\ last.op # "none" => last'.ret.kind \notin {"panic", "blocked"}]_vars

\* goroutine th is in the body of a call that writes the fields of the map
Writing(th) == pc[th].at = "body" /\ pc[th].op \in ExclusiveOps

\* goroutine th is at a read or a write of the fields of the map
Accessing(th) == pc[th].at \in {"body", "read"}

\* C16: while a mutating call (Put, Remove, Clear, SetComparator) of one
\* goroutine is at its accesses to the fields of the map, no other
\* goroutine is at a read or a write of them.
C16_WritersExcludeAll ==
  \A w \in Threads : \A th \in Threads \ {w} :
    Writing(w) => ~Accessing(th)

\* C17: a ContainsKey call never blocks for ever, whatever calls the other
\* goroutines make: while a goroutine is inside ContainsKey, some goroutine
\* that is inside a call can take its next step (when none can, no lock is
\* ever released again and the call never returns); and the flag the call
\* returns is the found flag of Get on the table it ran on.
C17_ContainsKeyReturns ==
  /\ \A th \in Threads :
       (LittleEndian /\ pc[th].op = "ContainsKey" /\ pc[th].at # "idle")
         => \E u \in Threads : Runnable(u)
  /\ (last.op = "ContainsKey" /\ last.ret.kind = "ok")
       => last.ret.ok = Get(Table, last.key).ok

\* C21: a Put that does not complete normally (it panics, or blocks, also
\* in a resize it triggered) leaves the table exactly as it was before the
\* call: capacity, size, every control byte and every entry.
C21_FailedPutChangesNothing ==
  [][(LittleEndian /\ last'.op = "Put" /\ last'.ret.kind # "ok")
       => UNCHANGED <<ctrl, entries, size, capacity>>]_vars

\* C22: two hashKey calls on one map with keys that the comparator holds
\* equal return the same hash, wherever the key values are stored.
C22_HashIsFunctionOfKey ==
  [][(/\ last.op = "hashKey"
      /\ last'.op = "hashKey"
      /\ last'.ret.type = last.ret.type
      /\ compareKeys(last.key, last'.key))
       => last'.ret.hash = last.ret.hash]_vars

\* the control byte of slot i is a tag, not the empty sentinel
Occupied(t, i) == t.ctrl[i] # emptyByte

\* C23: every slot i < capacity whose control byte is occupied holds a live
\* pair (a key that was Put and not removed since, with the value most
\* recently Put for it), and its control byte is the tag of the hash of
\* that key.
C23_OccupiedSlotHoldsTaggedEntry ==
  \A i \in 0..(capacity - 1) :
    Occupied(Table, i) =>
      /\ entries[i].key \in DOMAIN abs
      /\ entries[i].value = abs[entries[i].key]
      /\ ctrl[i] = hashToByte(hashKey(entries[i].key))

\* C24: in every reachable state capacity is a power of two and at least
\* 8, ctrl has capacity + 16 bytes and entries has capacity elements.
C24_CapacityPowerOfTwo ==
  /\ capacity >= minCapacity
  /\ \E j \in 0..MaxDoublings : capacity = minCapacity * 2 ^ j
  /\ DOMAIN ctrl = 0..(capacity + groupSize - 1)
  /\ DOMAIN entries = 0..(capacity - 1)

\* a resize has replaced the slices of the map
C24_SlicesReplaced ==
  /\ capacity > minCapacity
  /\ DOMAIN entries = 0..(2 * minCapacity - 1)

\* C25: after every call that returned, 0 <= size and
\* size <= capacity * 0.875 (size * 8 <= capacity * 7).
C25_SizeWithinLoadFactor ==
  (LittleEndian /\ last.ret.kind = "ok")
    => /\ 0 <= size
       /\ size * loadFactorDen <= capacity * loadFactorNum

\* C26: after every call that returned, no call having failed before,
\* size is the number of slots i < capacity whose control byte is occupied,
\* and the number of distinct keys in the map.
C26_SizeCountsOccupiedSlots ==
  (LittleEndian /\ ~faulted)
    => /\ size = Cardinality({i \in 0..(capacity - 1) : Occupied(Table, i)})
       /\ size = Cardinality(DOMAIN abs)

\* C27: the mask matchGroup(group, tag) returns has bit j set, for every j
\* in 0..15, exactly when ctrl[group+j] = tag.
C27_MatchGroupMaskIsExact ==
  (LittleEndian /\ last.op = "matchGroup")
    => last.ret.mask = {j \in 0..(groupSize - 1) :
                          ctrl[last.ret.group + j] = last.ret.hashByte}

\* the positions of the empty control bytes of the group
EmptySlots(group) ==
  {j \in 0..(groupSize - 1) : ctrl[group + j] = emptyByte}

\* C28: findEmptySlot(group) returns the smallest j in 0..15 with
\* ctrl[group+j] empty, and -1 exactly when no control byte of the group is
\* empty.
C28_FindEmptySlotIsFirstEmpty ==
  (LittleEndian /\ last.op = "findEmptySlot")
    => last.ret.slot = IF EmptySlots(last.ret.group) = {} THEN -1
                       ELSE Min(EmptySlots(last.ret.group))

\* C29: in Get and Remove, an iteration of the probe loop that scanned its
\* group without a key match returns not found if any of the 16 control
\* bytes of the group is empty, and goes on to the next probe index only
\* when none is.
C29_ProbeStopsAtEmptyGroup ==
  (LittleEndian /\ last.op = "lookupGroup"
     /\ last.ret.step \in {"miss", "next"})
    => (last.ret.step = "miss") = (EmptySlots(last.ret.group) # {})

\* the key is found in table t
Present(t, key) == Get(t, key).kind = "ok" /\ Get(t, key).ok

\* the resize of table t, z being what it leaves, returned, kept Size() and
\* made no key present that was absent
ResizeKeepsEntries(t, z) ==
  /\ ~z.blocked
  /\ Size(z.t) = Size(t)
  /\ \A key \in KeySet : Present(z.t, key) => Present(t, key)

\* C30: the resize a Put starts with (size has reached capacity * 0.875)
\* replays Put for the occupied slots of the old table and no other: it
\* returns, Size() after it equals Size() before it, and no key that was
\* absent before it is present after it.
C30_ResizeReplaysOccupiedSlots ==
  [][(last'.op = "Put" /\ shouldResize(Table))
       => ResizeKeepsEntries(Table, PutResizeStep(Table))]_vars

\* findOrInsert returned r: a slot index in [0, capacity)
InRange(r) == r.kind = "slot" /\ r.index \in 0..(r.t.capacity - 1)

\* the slot findOrInsert returns to Put(key, ...), z being the table after
\* the resize step Put starts with
PutIndexInRange(z, key) ==
  z.blocked \/ InRange(findOrInsert(z.t, hashKey(key), key))

\* C31: every slot index findOrInsert returns to a Put lies in
\* [0, capacity), and no Put, Get or Remove reads or writes an entry at an
\* index outside [0, capacity) (an index outside the entry slice is a
\* run-time panic), on a map of any capacity, the minimum 8 included.
C31_IndicesWithinCapacity ==
  [][(LittleEndian /\ last'.op \in {"Put", "Get", "Remove"}
        /\ ~hashKeyPanics(last'.key))
       => /\ last'.op = "Put"
                => PutIndexInRange(PutResizeStep(Table), last'.key)
          /\ last'.ret.kind # "panic"]_vars

\* the slots of table t that are occupied and hold key
SlotsOf(t, key) ==
  {i \in 0..(t.capacity - 1) :
     Occupied(t, i) /\ compareKeys(t.entries[i].key, key)}

\* no two occupied slots of t hold keys the comparator holds equal
UniqueKeys(t) ==
  \A i \in 0..(t.capacity - 1) :
    Occupied(t, i) => SlotsOf(t, t.entries[i].key) = {i}

C33_TagIsNeverEmptyByte ==
  last.op = "hashToByte" => last.ret.byte # emptyByte

\* C34: a read leaves ctrl, entries, size and capacity unchanged, and two
\* consecutive Get(k) calls return the same.
C34_ReadsChangeNothing ==
  [][last'.op \in {"Get", "ContainsKey", "Size", "IsEmpty", "Keys",
                   "Values", "ForEach"}
       => /\ UNCHANGED <<ctrl, entries, size, capacity>>
          /\ (/\ last.op = "Get"
              /\ last'.op = "Get"
              /\ last'.key = last.key) => last'.ret = last.ret]_vars

\* C35: a Put of a key that is present (no call having failed before)
\* returns and changes only the value stored in the slot of that key:
\* size, capacity, every control byte and the entry of every other slot
\* are as before the call, also when size is at the load-factor threshold.
C35_PutPresentInPlace ==
  [][(LittleEndian /\ last'.op = "Put" /\ ~faulted
        /\ last'.key \in DOMAIN abs)
       => /\ last'.ret.kind = "ok"
          /\ size' = size
          /\ capacity' = capacity
          /\ ctrl' = ctrl
          /\ \A i \in DOMAIN entries :
               /\ entries'[i].key = entries[i].key
               /\ entries'[i] # entries[i]
                    => compareKeys(entries[i].key, last'.key)]_vars

\* C36: Get calls that overlap under the read lock do not interfere: each
\* returns what it returns when it runs alone on the table, which no call
\* changes while a read lock is held.
C36_OverlappingGetsAsAlone ==
  [][\A th \in Threads :
       (pc[th].at = "probe" /\ pc'[th].at = "RUnlock")
         => last'.ret = GetAt(Table, SumOf(pc[th].key), pc[th].key)]_vars

\* C37: the groupSize control bytes after the slots, at indices capacity to
\* capacity + groupSize - 1, are the empty sentinel in every state: no Put,
\* Remove or resize writes a tag there.
C37_PaddingStaysEmpty ==
  LittleEndian =>
    \A i \in capacity..(capacity + groupSize - 1) : ctrl[i] = emptyByte

====
